---- MODULE Spec2Model ----
(***************************************************************************)
(* The request / throttling / pagination protocol of pyreadwise            *)
(* (readwise/api.py): the two clients Readwise and ReadwiseReader, their   *)
(* _request loop, the offset-paged and the cursor-paged _get_pagination    *)
(* generators and the listing methods built on them.                       *)
(*                                                                         *)
(* One thread of control: a caller starts an operation, the transport      *)
(* answers each request that is in flight, and a consumer resumes a        *)
(* suspended generator.  The transport (requests.Session.request) is the   *)
(* environment: it answers with any status, headers and body.              *)
(***************************************************************************)
EXTENDS Integers, Sequences, FiniteSets, TLC

----------------------------------------------------------------------------
(* Bounds of the model.                                                    *)

\* pages a single walk is served (the last one served is always a final page)
MaxPages == 2
\* 429 responses the transport gives to one _request call
MaxThrottle == 2
\* ChunkedEncodingError failures the transport raises during one walk
MaxChunked == 2

----------------------------------------------------------------------------
(* Program constants.                                                      *)

DefaultPageSize == 1000
ChunkedDelay == 5
LimitDefault == 240
LimitHeavy == 20
LimitReader == 20

----------------------------------------------------------------------------
(* Python values.                                                          *)

\* None, and the empty string (both falsy)
None == "None"
EmptyStr == ""

\* bool(v) of a str-or-None value
Truthy(v) == v # None /\ v # EmptyStr

\* a dict is a function on its keys; {} is the function with no key
EmptyDict == [k \in {} |-> None]

\* dict.update / {**d, **e}: the keys of e win
DictUpdate(d, e) ==
    [k \in (DOMAIN d) \cup (DOMAIN e) |-> IF k \in DOMAIN e THEN e[k] ELSE d[k]]

\* int(s) of a Retry-After header value: the decimal strings parse, others
\* raise ValueError
IntTable == [s \in {"3"} |-> 3]
IsIntStr(s) == s \in DOMAIN IntTable
ParseInt(s) == IntTable[s]

\* datetime values, and datetime.isoformat() of each
Instants == {"datetime(2020, 1, 2, 3, 4, 5)", "datetime(1970, 1, 1, 0, 0)"}
IsoformatTable ==
    [d \in Instants |->
        IF d = "datetime(2020, 1, 2, 3, 4, 5)" THEN "2020-01-02T03:04:05"
        ELSE "1970-01-01T00:00:00"]
Isoformat(d) == IsoformatTable[d]

\* datetime.fromisoformat(s): the strings it accepts and the datetime each
\* gives; any other string raises ValueError
FromisoformatTable ==
    [s \in {"2020-01-01T00:00:00Z", "1970-01-01T00:00:00Z", "2020-01-02T03:04:05"} |->
        CASE s = "2020-01-01T00:00:00Z" -> "datetime(2020, 1, 1, 0, 0, tzinfo=utc)"
          [] s = "1970-01-01T00:00:00Z" -> "datetime(1970, 1, 1, 0, 0, tzinfo=utc)"
          [] OTHER -> "datetime(2020, 1, 2, 3, 4, 5)"]
IsIsoStr(s) == s \in DOMAIN FromisoformatTable
Fromisoformat(s) == FromisoformatTable[s]

\* keyword arguments: what a call passes, over the defaults of the signature
KwArgs(name, values) == {EmptyDict} \cup {[k \in {name} |-> v] : v \in values}
WithDefaults(defaults, given) == DictUpdate(defaults, given)

\* d[key] = value
DictSet(d, key, value) == DictUpdate(d, [k \in {key} |-> value])

----------------------------------------------------------------------------
(* The two clients.                                                        *)

Clients == {"Readwise", "ReadwiseReader"}

BaseUrl(client) ==
    IF client = "Readwise" THEN "https://readwise.io/api/v2"
                           ELSE "https://readwise.io/api/v3"

\* self._session: a fresh Session carrying the two headers
SessionHeaders(client, token) ==
    [Accept |-> "application/json", Authorization |-> <<"Token", token>>]

TokenOf(client) == IF client = "Readwise" THEN "tok2" ELSE "tok3"

\* what one call of Session.request is given: the body dict is passed either
\* as the keyword json= or as the keyword data=
\* (record fields are written in the order TLC normalises them to, so that
\* a record value two workers share is never reordered in place)
MkRequest(client, method, endpoint, params, body, kw) ==
    [method  |-> method,
     params  |-> params,
     body    |-> body,
     kw      |-> kw,
     url     |-> <<BaseUrl(client), endpoint>>,
     headers |-> SessionHeaders(client, TokenOf(client))]

\* the first send of _request passes json=data
FirstSend(client, method, endpoint, params, data) ==
    MkRequest(client, method, endpoint, params, data, "json")

\* (variant: the resend goes out on a session without the client's headers)
ResendBare(client, method, endpoint, params, data) ==
    [method  |-> method,
     params  |-> params,
     body    |-> data,
     kw      |-> "data",
     url     |-> <<BaseUrl(client), endpoint>>,
     headers |-> [Accept |-> "*/*", Authorization |-> <<>>]]

\* the resend after a 429
ResendKeyword == "data"
Resend(client, method, endpoint, params, data) ==
    MkRequest(client, method, endpoint, params, data, ResendKeyword)

NoRequest == [method |-> "", params |-> EmptyDict, body |-> EmptyDict, kw |-> "",
              url |-> <<"", "">>, headers |-> SessionHeaders("", "")]

----------------------------------------------------------------------------
(* What the transport answers.                                             *)

\* (variant: raises for 5xx only)
RaisesForServerError(status) == 500 <= status /\ status < 600

\* Response.raise_for_status: HTTPError for 4xx and 5xx
RaisesForStatus(status) == 400 <= status /\ status < 600

\* headers of a 429: Retry-After absent, an integer, or not an integer
NoHeaders == EmptyDict
RetryAfterHeader(v) == [h \in {"Retry-After"} |-> v]
ThrottleHeaders == {NoHeaders} \cup {RetryAfterHeader(v) : v \in {"3", "soon"}}

\* cursors / next links the server hands out
CursorNames == <<"c1", "c2", "c3", "c4", "c5">>
Cursors == {CursorNames[i] : i \in 1..MaxPages}

\* timestamps as the server sends them: null, empty, or ISO-8601; and a
\* string that is no timestamp
WireStamps == {None, EmptyStr, "2020-01-01T00:00:00Z", "1970-01-01T00:00:00Z",
               "2020-01-02T03:04:05"}
NotAStamp == "yesterday"

\* one element of results as decoded from JSON, reduced to its id and its
\* timestamps (the keys a listing method does not read do no harm)
RawWith(id, last_highlight_at, updated) ==
    [id |-> id, last_highlight_at |-> last_highlight_at, updated |-> updated,
     created_at |-> "2020-01-01T00:00:00Z", updated_at |-> "2020-01-02T03:04:05"]

\* the element with a given id on the server of the model: its nullable
\* timestamps are null, empty or set
RawItem(id) ==
    CASE id % 3 = 2 -> RawWith(id, None, "2020-01-01T00:00:00Z")
      [] id % 3 = 0 -> RawWith(id, EmptyStr, None)
      [] OTHER -> RawWith(id, "2020-01-02T03:04:05", "1970-01-01T00:00:00Z")

\* an element that lacks every key
BrokenItem == EmptyDict

\* the server's chain of pages: page k holds the records 10k+1 .. and links
\* to page k+1 through the k-th cursor; the last page has no link
ChainLen == MaxPages
ChainResults(k) == [i \in 1..(((k - 1) % 2) + 1) |-> RawItem(10 * k + i)]

\* the records on a page that is not the chain's: none, or those of page 1
ResultLists == {<<>>, ChainResults(1)}

\* decoded bodies: an envelope {results, next / nextPageCursor} (it has the
\* key results; a missing next reads as None through dict.get), a bare
\* list, the JSON object {} without any key, a JSON number, the empty JSON
\* string, and a body that is not JSON
Envelope(next, results) == [next |-> next, results |-> results, kind |-> "dict"]
BareList(items) == [next |-> None, results |-> items, kind |-> "list"]
EmptyObject == [next |-> None, results |-> <<>>, kind |-> "object"]
ScalarBody == [next |-> None, results |-> <<>>, kind |-> "scalar"]
EmptyText == [next |-> None, results |-> <<>>, kind |-> "text"]
InvalidBody == [next |-> None, results |-> <<>>, kind |-> "invalid"]
NoBody == [next |-> None, results |-> <<>>, kind |-> "none"]

ChainPage(k) ==
    Envelope(IF k < ChainLen THEN CursorNames[k] ELSE None, ChainResults(k))

Envelopes ==
    {Envelope(n, r) : n \in {None, EmptyStr} \cup Cursors, r \in ResultLists}
        \cup {ChainPage(k) : k \in 1..ChainLen}
\* a page whose second element cannot be decoded
BrokenPages == {Envelope(None, <<RawItem(11), BrokenItem>>),
                BareList(<<RawItem(11), BrokenItem>>)}

Bodies == Envelopes \cup {BareList(r) : r \in ResultLists} \cup BrokenPages
              \cup {EmptyObject, ScalarBody, EmptyText, InvalidBody}

\* position in the chain a request asks for: the offset client by its page
\* number, the cursor client by its pageCursor (none: the first page)
CursorIndex(c) == CHOOSE i \in 1..Len(CursorNames) : CursorNames[i] = c
AskedPage(client, params) ==
    IF client = "Readwise"
    THEN (IF "page" \in DOMAIN params THEN params["page"] ELSE 1)
    ELSE (IF "pageCursor" \in DOMAIN params
          THEN CursorIndex(params["pageCursor"]) + 1 ELSE 1)

\* the body a well-behaved server gives to a request (the tags endpoint
\* answers with one bare list)
NormalBody(client, entry, params) ==
    LET k == AskedPage(client, params) IN
    IF entry = "get_book_tags"
    THEN (IF k = 1 THEN BareList(ChainResults(1)) ELSE InvalidBody)
    ELSE (IF k \in 1..ChainLen THEN ChainPage(k) ELSE InvalidBody)

----------------------------------------------------------------------------
(* Entry points.                                                           *)

\* generators over pages and generators over records, per client
LegacyWalks == {"get_pagination", "get_pagination_limit_20",
                "get_books", "get_book_highlights", "get_book_tags"}
ReaderWalks == {"get_pagination_limit_20", "get_documents"}
ListingMethods == {"get_books", "get_book_highlights", "get_book_tags", "get_documents"}
DirectCalls == {"get", "get_with_limit_20", "post", "delete"}
CreateCalls == {"create_highlight", "create_document"}
TagCalls == {"add_tag", "delete_tag"}

\* the methods that do not return the response they get
DropsResponse == {"create_highlight"} \cup TagCalls

\* the get method a walk uses for its requests
GetMethodOf(entry) == IF entry = "get_pagination" THEN "get" ELSE "get_with_limit_20"

\* endpoint and filter parameters the legacy listing methods pass on
ListingEndpoint(entry) ==
    CASE entry = "get_books" -> "/books/"
      [] entry = "get_book_highlights" -> "/highlights/"
      [] entry = "get_book_tags" -> "/books/1/tags/"
      [] entry = "get_documents" -> "/list/"
      [] OTHER -> "test/"
ListingParams(entry) ==
    CASE entry = "get_books" -> [category |-> "books"]
      [] entry = "get_book_highlights" -> [book_id |-> "1"]
      [] entry = "get_book_tags" -> [book_id |-> "1"]
      [] OTHER -> EmptyDict

\* parameter dicts and bodies a caller passes
CallerFilters == {EmptyDict, [category |-> "article"]}
ReaderFilter == [category |-> "article"]

\* the params a caller gives to get_pagination: any query parameters of the
\* endpoint, the page among them
WalkFilters == CallerFilters \cup {[page |-> 2]}
PageSizes == {DefaultPageSize, 50}
PostBodies == {[name |-> "tag"]}

\* the HTTP method of get / post / delete
MethodOf(via) ==
    CASE via = "post" -> "POST"
      [] via = "delete" -> "DELETE"
      [] OTHER -> "GET"

\* objects that outlive a call: the default of get_documents' params
\* argument (one dict for every call and every instance), a dict owned by
\* the caller, and the default of create_document's tags argument (one list
\* for every call)
ParamRefs == {"default", "caller"}
Refs == ParamRefs \cup {"tags"}

\* budget classes named by the docstrings, and the requests each counts
Classes == {"default", "heavy", "reader"}
LimitOf(class) ==
    CASE class = "default" -> LimitDefault
      [] class = "heavy" -> LimitHeavy
      [] OTHER -> LimitReader
InClass(class, client, via) ==
    CASE class = "reader" -> client = "ReadwiseReader"
      [] class = "heavy" -> client = "Readwise" /\ via = "get_with_limit_20"
      [] OTHER -> client = "Readwise"

----------------------------------------------------------------------------
(* State.                                                                  *)

VARIABLES
    pc,          \* "idle", "created" (generator not started), "await" (a request
                 \* is in flight), "yielded" (generator suspended at its yield),
                 \* "done" (returned / exhausted), "raised"
    op,          \* the operation in progress
    heap,        \* the long-lived dict objects, by reference
    page,        \* _get_pagination (offset): local page
    pageCursor,  \* _get_pagination (cursor): local pageCursor
    data,        \* _get_pagination: the body last yielded
    frame,       \* _request: its arguments
    first,       \* _request: the first request it sent
    last,        \* _request: the request in flight / sent last
    nSends,      \* _request: requests sent by this call
    throttles,   \* _request: the headers of the 429s received
    slept,       \* _request: the sleeps it made
    answer,      \* _request: status of the response received last (0: none yet)
    asks,        \* walk: times the consumer asked the generator for a page
    gets,        \* walk: calls of the get method
    received,    \* walk: bodies of the responses the get method returned
    yielded,     \* walk: pages yielded by _get_pagination
    records,     \* walk: records yielded by the listing method
    chunked,     \* walk: ChunkedEncodingErrors raised by the transport
    paused,      \* walk: sleeps made after a ChunkedEncodingError
    outcome,     \* what the operation handed to its caller
    normal,      \* walk: every answer so far was the chain's page for the request
    metered,     \* the budget class under observation ("none": not observed)
    traced,      \* the walk's history (gets, received, yielded, records) is kept
    used,        \* requests of that class sent since the window opened
    over,        \* the request sent last went out with the window's budget used up
    parked,      \* the other generator the caller holds, suspended: its frame
    item         \* listing method: elements of the page it has gone through

vars == <<pc, op, heap, page, pageCursor, data, frame, first, last, nSends,
          throttles, slept, answer, gets, received, yielded, records, chunked, paused,
          outcome, normal, metered, traced, used, over, asks, parked, item>>

NoOp == [client |-> "", endpoint |-> "", params |-> EmptyDict, data |-> EmptyDict,
         entry |-> "", via |-> "", ref |-> "", page_size |-> 0,
         args |-> EmptyDict]
NoFrame == [client |-> "", method |-> "", endpoint |-> "",
            params |-> EmptyDict, data |-> EmptyDict]

NoOutcome == [body |-> NoBody, status |-> 0, kind |-> "none", error |-> ""]
ReturnedNone == [body |-> NoBody, status |-> 0, kind |-> "value", error |-> ""]
Returned(status, body) ==
    [body |-> body, status |-> status, kind |-> "response", error |-> ""]
Raised(error, status) ==
    [body |-> NoBody, status |-> status, kind |-> "error", error |-> error]

\* a generator's frame (its locals and its position) with what the caller
\* has seen of it; the frame of a generator that does not exist yet
NoWalk ==
    [data |-> NoBody, page |-> 0, pc |-> "idle", op |-> NoOp, pageCursor |-> None,
     asks |-> 0, gets |-> 0, received |-> <<>>, yielded |-> <<>>, records |-> <<>>,
     chunked |-> 0, paused |-> <<>>, outcome |-> NoOutcome, normal |-> TRUE,
     item |-> 0]

InitCommon ==
    /\ parked = NoWalk
    /\ item = 0
    /\ pc = "idle"
    /\ op = NoOp
    /\ heap = [r \in Refs |-> IF r = "caller" THEN ReaderFilter ELSE EmptyDict]
    /\ page = 0
    /\ pageCursor = None
    /\ data = NoBody
    /\ frame = NoFrame
    /\ first = NoRequest
    /\ last = NoRequest
    /\ nSends = 0
    /\ throttles = <<>>
    /\ slept = <<>>
    /\ answer = 0
    /\ asks = 0
    /\ gets = 0
    /\ received = <<>>
    /\ yielded = <<>>
    /\ records = <<>>
    /\ chunked = 0
    /\ paused = <<>>
    /\ outcome = NoOutcome
    /\ normal = TRUE
    /\ used = 0
    /\ over = FALSE

Init == InitCommon /\ metered = "none" /\ traced = TRUE

----------------------------------------------------------------------------
(* _request.                                                               *)

Min(a, b) == IF a < b THEN a ELSE b

\* one more request handed to Session.request: the observer of the budget
\* window counts it (saturating one above the limit)
Metering(client, via) ==
    IF metered \in Classes /\ InClass(metered, client, via)
    THEN /\ used' = Min(used + 1, LimitOf(metered) + 1)
         /\ over' = (used >= LimitOf(metered))
    ELSE /\ used' = used
         /\ over' = FALSE

\* _request up to its first Session.request
BeginRequest(client, via, method, endpoint, params, body) ==
    /\ frame' = [client |-> client, method |-> method, endpoint |-> endpoint,
                 params |-> params, data |-> body]
    /\ first' = FirstSend(client, method, endpoint, params, body)
    /\ last' = FirstSend(client, method, endpoint, params, body)
    /\ nSends' = 1
    /\ throttles' = <<>>
    /\ slept' = <<>>
    /\ answer' = 0
    /\ pc' = "await"
    /\ Metering(client, via)

\* no _request call has been made yet
NoCall ==
    /\ frame' = NoFrame
    /\ first' = NoRequest
    /\ last' = NoRequest
    /\ nSends' = 0
    /\ throttles' = <<>>
    /\ slept' = <<>>
    /\ answer' = 0
    /\ over' = FALSE

\* the history of a walk: a count goes up and a sequence grows only while
\* the history is kept
Count(n) == IF traced THEN n + 1 ELSE n
Trace(h, x) == IF traced THEN Append(h, x) ELSE h
TraceAll(h, xs) == IF traced THEN h \o xs ELSE h

\* a new operation starts with a clean trace
FreshWalk ==
    /\ asks' = 0
    /\ gets' = 0
    /\ received' = <<>>
    /\ yielded' = <<>>
    /\ records' = <<>>
    /\ chunked' = 0
    /\ paused' = <<>>
    /\ outcome' = NoOutcome
    /\ normal' = TRUE
    /\ data' = NoBody
    /\ item' = 0

\* the thread is free to start something
CanStart == pc = "idle"

\* get / get_with_limit_20 / post / delete called directly
CallDirect(client, via, endpoint, params, body) ==
    /\ CanStart
    /\ op' = [client |-> client, endpoint |-> endpoint, params |-> params, data |-> body,
              entry |-> via, via |-> via, ref |-> "", page_size |-> 0,
              args |-> EmptyDict]
    /\ FreshWalk
    /\ BeginRequest(client, via, MethodOf(via), endpoint, params, body)
    /\ UNCHANGED <<parked, heap, page, pageCursor, metered, traced>>

\* f'/books/{book_id}/tags/' and f'/books/{book_id}/tags/{tag_id}', for the
\* ids of the model
TagsEndpoint(book_id) == [b \in {"1"} |-> "/books/1/tags/"][book_id]
TagEndpoint(book_id, tag_id) ==
    [b \in {"1"} |-> [t \in {"2"} |-> "/books/1/tags/2"]][book_id][tag_id]

\* add_tag(book_id, tag): self.post(f'/books/{book_id}/tags/', {'name': tag})
AddTag(book_id, tag) ==
    /\ CanStart
    /\ op' = [client |-> "Readwise", endpoint |-> TagsEndpoint(book_id),
              params |-> EmptyDict, data |-> [name |-> tag],
              entry |-> "add_tag", via |-> "post", ref |-> "", page_size |-> 0,
              args |-> EmptyDict]
    /\ FreshWalk
    /\ BeginRequest("Readwise", "post", "POST", op'.endpoint, EmptyDict, op'.data)
    /\ UNCHANGED <<parked, heap, page, pageCursor, metered, traced>>

\* delete_tag(book_id, tag_id): self.delete(f'/books/{book_id}/tags/{tag_id}')
DeleteTag(book_id, tag_id) ==
    /\ CanStart
    /\ op' = [client |-> "Readwise", endpoint |-> TagEndpoint(book_id, tag_id),
              params |-> EmptyDict, data |-> EmptyDict,
              entry |-> "delete_tag", via |-> "delete", ref |-> "", page_size |-> 0,
              args |-> EmptyDict]
    /\ FreshWalk
    /\ BeginRequest("Readwise", "delete", "DELETE", op'.endpoint, EmptyDict, EmptyDict)
    /\ UNCHANGED <<parked, heap, page, pageCursor, metered, traced>>

----------------------------------------------------------------------------
(* create_highlight (Readwise).                                            *)

\* the defaults of the optional arguments
HighlightDefaults ==
    [category |-> "articles", author |-> None, highlighted_at |-> None,
     source_url |-> None, note |-> None]

\* (variant: every argument goes into the payload, set or not)
HighlightPayloadAll(a) ==
    [category |-> a.category, author |-> a.author,
     highlighted_at |-> IF Truthy(a.highlighted_at)
                        THEN Isoformat(a.highlighted_at) ELSE None,
     source_url |-> a.source_url, note |-> a.note,
     text |-> a.text, title |-> a.title]

\* payload = {'text', 'title', 'category'}, then one key per truthy argument
HighlightPayload(a) ==
    LET p0 == [category |-> a.category, text |-> a.text, title |-> a.title]
        p1 == IF Truthy(a.author) THEN DictSet(p0, "author", a.author) ELSE p0
        p2 == IF Truthy(a.highlighted_at)
              THEN DictSet(p1, "highlighted_at", Isoformat(a.highlighted_at)) ELSE p1
        p3 == IF Truthy(a.source_url) THEN DictSet(p2, "source_url", a.source_url) ELSE p2
    IN  IF Truthy(a.note) THEN DictSet(p3, "note", a.note) ELSE p3

\* the calls the model makes: text and title, and any of the optional
\* arguments (an empty string is a value a caller may pass)
HighlightCalls ==
    {DictUpdate(DictUpdate(DictUpdate(DictUpdate(DictUpdate(
        [text |-> "hello", title |-> "Book"], a), h), u), c), n) :
        a \in KwArgs("author", {EmptyStr, "Ann"}),
        h \in KwArgs("highlighted_at", {"datetime(2020, 1, 2, 3, 4, 5)"}),
        u \in KwArgs("source_url", {"https://s"}),
        c \in KwArgs("category", {"books"}),
        n \in KwArgs("note", {EmptyStr, "fine"})}

\* self.post('/highlights/', {'highlights': [payload]})
CreateHighlight(given) ==
    LET a == WithDefaults(HighlightDefaults, given)
        body == [highlights |-> <<HighlightPayload(a)>>]
    IN  /\ CanStart
        /\ op' = [client |-> "Readwise", endpoint |-> "/highlights/", params |-> EmptyDict,
                  data |-> body, entry |-> "create_highlight", via |-> "post",
                  ref |-> "", page_size |-> 0, args |-> given]
        /\ FreshWalk
        /\ BeginRequest("Readwise", "post", "POST", "/highlights/", EmptyDict, body)
        /\ UNCHANGED <<parked, heap, page, pageCursor, metered, traced>>

----------------------------------------------------------------------------
(* create_document (ReadwiseReader).                                       *)

\* the defaults of the optional arguments; the default of tags is the list
\* object made when the method was defined
DocumentDefaults(tags) ==
    [author |-> None, title |-> None, tags |-> tags, html |-> None,
     should_clean_html |-> None, summary |-> None, published_at |-> None,
     image_url |-> None, location |-> "new", saved_using |-> None]

\* (variant: every argument goes into the body, set or not)
DocumentDataAll(a) ==
    [url |-> a.url, author |-> a.author, title |-> a.title, tags |-> a.tags,
     html |-> a.html, should_clean_html |-> a.should_clean_html,
     summary |-> a.summary,
     published_at |-> IF Truthy(a.published_at)
                      THEN Isoformat(a.published_at) ELSE None,
     image_url |-> a.image_url, location |-> a.location,
     saved_using |-> a.saved_using]

\* data = {'url', 'tags', 'location'}, then one key per argument that is set
DocumentData(a) ==
    LET d0 == [url |-> a.url, tags |-> a.tags, location |-> a.location]
        d1 == IF Truthy(a.html) THEN DictSet(d0, "html", a.html) ELSE d0
        d2 == IF a.should_clean_html # None
              THEN DictSet(d1, "should_clean_html", a.should_clean_html) ELSE d1
        d3 == IF Truthy(a.title) THEN DictSet(d2, "title", a.title) ELSE d2
        d4 == IF Truthy(a.author) THEN DictSet(d3, "author", a.author) ELSE d3
        d5 == IF Truthy(a.summary) THEN DictSet(d4, "summary", a.summary) ELSE d4
        d6 == IF Truthy(a.published_at)
              THEN DictSet(d5, "published_at", Isoformat(a.published_at)) ELSE d5
        d7 == IF Truthy(a.image_url) THEN DictSet(d6, "image_url", a.image_url) ELSE d6
    IN  IF Truthy(a.saved_using) THEN DictSet(d7, "saved_using", a.saved_using) ELSE d7

\* the calls the model makes: url, and any of the optional arguments (the
\* string "False" stands for Python's False)
DocumentCalls ==
    {DictUpdate(DictUpdate(DictUpdate(DictUpdate(DictUpdate(DictUpdate(DictUpdate(
     DictUpdate(DictUpdate(DictUpdate(
        [url |-> "https://d"], h), c), t), a), s), p), i), l), u), g) :
        h \in KwArgs("html", {"<p>"}),
        c \in KwArgs("should_clean_html", {"False"}),
        t \in KwArgs("title", {EmptyStr, "Title"}),
        a \in KwArgs("author", {"Ann"}),
        s \in KwArgs("summary", {"short"}),
        p \in KwArgs("published_at", {"datetime(2020, 1, 2, 3, 4, 5)"}),
        i \in KwArgs("image_url", {"https://i"}),
        l \in KwArgs("location", {"later"}),
        u \in KwArgs("saved_using", {"cli"}),
        g \in KwArgs("tags", {<<"x">>})}

\* return self.post('/save/', data)
CreateDocument(given) ==
    LET a == WithDefaults(DocumentDefaults(heap["tags"]), given)
        body == DocumentData(a)
    IN  /\ CanStart
        /\ op' = [client |-> "ReadwiseReader", endpoint |-> "/save/",
                  params |-> EmptyDict, data |-> body, entry |-> "create_document",
                  via |-> "post", ref |-> "", page_size |-> 0, args |-> given]
        /\ FreshWalk
        /\ BeginRequest("ReadwiseReader", "post", "POST", "/save/", EmptyDict, body)
        /\ UNCHANGED <<parked, heap, page, pageCursor, metered, traced>>

----------------------------------------------------------------------------
(* The generators.                                                         *)

\* (variant: the body runs up to its first request when the method is called)
RunsAtCall ==
    BeginRequest(op'.client, op'.via, "GET", op'.endpoint, op'.params, EmptyDict)

\* calling a generator function runs none of its body
NotStarted ==
    /\ pc' = "created"
    /\ NoCall

\* a generator is created: nothing runs until the consumer asks for a page.
\* A reader walk keeps a reference to the dict it was given; "caller" with
\* given = FALSE is the caller passing again the dict of an earlier call.
StartLegacyWalk(entry, params, page_size) ==
    /\ CanStart
    /\ op' = [client |-> "Readwise", endpoint |-> ListingEndpoint(entry), params |-> params,
              data |-> EmptyDict, entry |-> entry,
              via |-> GetMethodOf(entry), ref |-> "", page_size |-> page_size,
              args |-> EmptyDict]
    /\ FreshWalk
    /\ NotStarted
    /\ page' = 0
    /\ pageCursor' = None
    /\ UNCHANGED <<parked, heap, metered, traced, used>>

StartReaderWalk(entry, ref, given, params) ==
    /\ CanStart
    /\ op' = [client |-> "ReadwiseReader", endpoint |-> "/list/", params |-> EmptyDict,
              data |-> EmptyDict, entry |-> entry,
              via |-> GetMethodOf(entry), ref |-> ref, page_size |-> 0,
              args |-> EmptyDict]
    /\ heap' = IF given THEN [heap EXCEPT ![ref] = params] ELSE heap
    /\ FreshWalk
    /\ NotStarted
    /\ page' = 0
    /\ pageCursor' = None
    /\ UNCHANGED <<parked, metered, traced, used>>

----------------------------------------------------------------------------
(* The listing methods: the records they yield from one page.              *)

IsWalk == op.entry \notin (DirectCalls \cup CreateCalls \cup TagCalls) /\ op.entry # ""

\* for x in data['results'] (get_book_tags: for x in data): the error it
\* raises before any element is built ("": none).  Subscripting a list, a
\* number or a string with 'results' is a TypeError, {} has no such key;
\* iterating an envelope gives its keys, strings, and tag['id'] on a string
\* is a TypeError, as is iterating a number.
ShapeError(entry, d) ==
    IF entry = "get_book_tags"
    THEN (IF d.kind \in {"dict", "scalar"} THEN "TypeError" ELSE "")
    ELSE (IF d.kind = "dict" THEN ""
          ELSE IF d.kind = "object" THEN "KeyError" ELSE "TypeError")

\* the elements the loop goes through: {} and "" hold none
Items(entry, d) ==
    IF ShapeError(entry, d) = "" /\ d.kind \in {"dict", "list"} THEN d.results
    ELSE <<>>

\* the keys of an element a listing method reads (of those the model
\* keeps), in the order the keyword arguments are evaluated
KeysRead(entry) ==
    CASE entry = "get_books" -> <<"id", "last_highlight_at", "updated">>
      [] entry = "get_book_highlights" -> <<"id", "updated">>
      [] entry = "get_documents" -> <<"id", "created_at", "updated_at">>
      [] OTHER -> <<"id">>
KeySet(entry) == {KeysRead(entry)[i] : i \in 1..Len(KeysRead(entry))}

\* timestamps parsed only when truthy, and timestamps always parsed
NullableStamps(entry) ==
    CASE entry = "get_books" -> {"last_highlight_at", "updated"}
      [] entry = "get_book_highlights" -> {"updated"}
      [] OTHER -> {}
RequiredStamps(entry) ==
    IF entry = "get_documents" THEN {"created_at", "updated_at"} ELSE {}

\* (variant: a missing timestamp becomes the epoch)
OptionalInstantEpoch(v) ==
    IF Truthy(v) THEN Fromisoformat(v) ELSE "datetime(1970, 1, 1, 0, 0, tzinfo=utc)"

\* datetime.fromisoformat(x) if x else None
OptionalInstant(v) == IF Truthy(v) THEN Fromisoformat(v) ELSE None

\* the error evaluating one keyword argument raises ("": none): a missing
\* key, None given to fromisoformat, a string it rejects
ArgError(entry, raw, k) ==
    IF k \notin DOMAIN raw THEN "KeyError"
    ELSE IF k \in RequiredStamps(entry) /\ raw[k] = None THEN "TypeError"
    ELSE IF k \in RequiredStamps(entry) /\ ~IsIsoStr(raw[k]) THEN "ValueError"
    ELSE IF k \in NullableStamps(entry) /\ Truthy(raw[k]) /\ ~IsIsoStr(raw[k])
    THEN "ValueError"
    ELSE ""

\* the error building one record raises: that of the first argument that
\* fails
DecodeError(entry, raw) ==
    LET keys == KeysRead(entry)
        bad == {i \in 1..Len(keys) : ArgError(entry, raw, keys[i]) # ""}
    IN  IF bad = {} THEN ""
        ELSE ArgError(entry, raw, keys[CHOOSE i \in bad : \A j \in bad : i <= j])

\* the record built from one element
Decode(entry, raw) ==
    [k \in KeySet(entry) |->
        IF k \in NullableStamps(entry) THEN OptionalInstant(raw[k])
        ELSE IF k \in RequiredStamps(entry) THEN Fromisoformat(raw[k])
        ELSE raw[k]]

----------------------------------------------------------------------------
(* _get_pagination, offset-paged (Readwise).                               *)

\* (variant: stops on a bare list only)
StopOffsetListOnly(d) == d.kind = "list"

\* (variant: tests next against None only, so an empty next goes on)
StopOffsetNoneOnly(d) == d.kind = "list" \/ d.next = None

\* the test after the yield
StopOffset(d) == d.kind = "list" \/ ~Truthy(d.next)

\* params={'page': page, 'page_size': page_size, **params}
OffsetParams(p, page_size, params) ==
    DictUpdate([page |-> p, page_size |-> page_size], params)

\* the page number of the first request, and of the one after page p
FirstPage == 1
NextPageNo(p) == p + 1

\* the generator goes on without sending anything: the record of _request
\* stays, with the status of the response read last
NoSend(status) ==
    /\ answer' = status
    /\ UNCHANGED <<frame, first, last, nSends, throttles, slept, used, over>>

\* response = getattr(self, get_method)(endpoint, params={...}) for page p
AskOffset(p) ==
    /\ page' = p
    /\ gets' = Count(gets)
    /\ item' = 0
    /\ BeginRequest("Readwise", op.via, "GET", op.endpoint,
                    OffsetParams(p, op.page_size, op.params), EmptyDict)
    /\ UNCHANGED <<outcome, heap, pageCursor>>

\* the generator resumes after its yield of d: data.get fails on a value
\* that is neither a list nor a dict, the test ends the walk, or the next
\* page is asked for
AfterPageOffset(d, status) ==
    IF d.kind \in {"scalar", "text"}
    THEN /\ pc' = "raised"
         /\ outcome' = Raised("AttributeError", 0)
         /\ NoSend(status)
         /\ UNCHANGED <<page, gets, item, heap, pageCursor>>
    ELSE IF StopOffset(d)
    THEN /\ pc' = "done"
         /\ NoSend(status)
         /\ UNCHANGED <<outcome, page, gets, item, heap, pageCursor>>
    ELSE AskOffset(NextPageNo(page))

----------------------------------------------------------------------------
(* _get_pagination, cursor-paged (ReadwiseReader).                         *)

\* the test after the yield
StopCursor(d, cursor) ==
    \/ d.kind = "list"
    \/ ~Truthy(d.next)
    \/ d.next = cursor

\* if pageCursor: params.update({'pageCursor': pageCursor}), on the dict
\* object the generator was given
CursorParams(params, cursor) ==
    IF Truthy(cursor) THEN DictUpdate(params, [pageCursor |-> cursor]) ELSE params

\* pageCursor = data.get('nextPageCursor')
NextCursor(d) == d.next

\* if pageCursor: params.update(...); response = getattr(self,
\* get_method)(endpoint, params=params) with the local cursor c
AskCursor(c) ==
    /\ pageCursor' = c
    /\ heap' = [heap EXCEPT ![op.ref] = CursorParams(@, c)]
    /\ gets' = Count(gets)
    /\ item' = 0
    /\ BeginRequest("ReadwiseReader", op.via, "GET", op.endpoint,
                    heap'[op.ref], EmptyDict)
    /\ UNCHANGED <<outcome, page>>

\* the generator resumes after its yield of d
AfterPageCursor(d, status) ==
    IF d.kind \in {"scalar", "text"}
    THEN /\ pc' = "raised"
         /\ outcome' = Raised("AttributeError", 0)
         /\ NoSend(status)
         /\ UNCHANGED <<page, gets, item, heap, pageCursor>>
    ELSE IF StopCursor(d, pageCursor)
    THEN /\ pc' = "done"
         /\ NoSend(status)
         /\ UNCHANGED <<outcome, page, gets, item, heap, pageCursor>>
    ELSE AskCursor(NextCursor(d))

----------------------------------------------------------------------------
(* A generator runs on to its next yield, to its end or to an error.       *)

AfterPage(d, status) ==
    IF op.client = "Readwise" THEN AfterPageOffset(d, status)
    ELSE AfterPageCursor(d, status)

\* a listing method that has gone through i elements of the page d builds
\* and yields the next one; past the last one its loop over the pages asks
\* _get_pagination for the next page.  A walk over pages has no elements
\* to go through.
NextValue(d, i, status) ==
    IF op.entry \in ListingMethods /\ i < Len(Items(op.entry, d))
    THEN LET raw == Items(op.entry, d)[i + 1] IN
         /\ item' = i + 1
         /\ IF DecodeError(op.entry, raw) # ""
            THEN /\ pc' = "raised"
                 /\ outcome' = Raised(DecodeError(op.entry, raw), status)
                 /\ UNCHANGED records
            ELSE /\ pc' = "yielded"
                 /\ records' = Trace(records, Decode(op.entry, raw))
                 /\ UNCHANGED outcome
         /\ NoSend(status)
         /\ UNCHANGED <<page, pageCursor, heap, gets>>
    ELSE /\ AfterPage(d, status)
         /\ UNCHANGED records

\* (variant: a page is decoded as a whole before any record is yielded)
IterateWholePage(d, i, status) ==
    LET items == Items(op.entry, d)
        bad == {j \in 1..Len(items) : DecodeError(op.entry, items[j]) # ""}
    IN  IF op.entry \in ListingMethods /\ i = 0 /\ bad # {}
        THEN /\ pc' = "raised"
             /\ outcome' = Raised(DecodeError(op.entry, items[CHOOSE j \in bad : TRUE]),
                                  status)
             /\ NoSend(status)
             /\ UNCHANGED <<records, item, page, pageCursor, heap, gets>>
        ELSE NextValue(d, i, status)

\* the generator runs on from element i of the page d
Iterate(d, i, status) == NextValue(d, i, status)

\* the consumer asks the generator for its next value: the first time the
\* body runs from the top, later it resumes after the yield
ResumeOffset ==
    /\ op.client = "Readwise"
    /\ pc \in {"created", "yielded"}
    /\ asks' = Count(asks)
    /\ IF pc = "created"
       THEN AskOffset(FirstPage) /\ UNCHANGED records
       ELSE Iterate(data, item, answer)
    /\ UNCHANGED <<parked, op, data, received, yielded, chunked, paused, normal,
                   metered, traced>>

ResumeCursor ==
    /\ op.client = "ReadwiseReader"
    /\ pc \in {"created", "yielded"}
    /\ asks' = Count(asks)
    /\ IF pc = "created"
       THEN AskCursor(None) /\ UNCHANGED records
       ELSE Iterate(data, item, answer)
    /\ UNCHANGED <<parked, op, data, received, yielded, chunked, paused, normal,
                   metered, traced>>

----------------------------------------------------------------------------
(* The transport answers the request in flight.                            *)

\* (variant: gives up resending after the first resend)
ThrottledOnce(status) == status = 429 /\ nSends < 2

\* while response.status_code == 429
Throttled(status) == status = 429

\* what a 429 leaves alone: the walk and what it has handed out
ThrottleFrame ==
    /\ answer' = 429
    /\ UNCHANGED <<frame, first, heap, page, pageCursor, gets, item>>
    /\ UNCHANGED <<data, received, yielded, records, normal>>

\* (variant: a 429 without a usable Retry-After is retried at once)
ThrottleLenient(headers) ==
    /\ throttles' = Append(throttles, headers)
    /\ slept' = Append(slept, IF "Retry-After" \in DOMAIN headers
                                 /\ IsIntStr(headers["Retry-After"])
                              THEN ParseInt(headers["Retry-After"]) ELSE 0)
    /\ last' = Resend(frame.client, frame.method, frame.endpoint,
                      frame.params, frame.data)
    /\ nSends' = nSends + 1
    /\ Metering(op.client, op.via)
    /\ UNCHANGED <<pc, outcome>>
    /\ ThrottleFrame

\* the loop body: read Retry-After, sleep, send again
Throttle(headers) ==
    /\ throttles' = Append(throttles, headers)
    /\ IF "Retry-After" \notin DOMAIN headers
       THEN /\ pc' = "raised"
            /\ outcome' = Raised("KeyError", 429)
            /\ UNCHANGED <<last, nSends, slept, used, over>>
       ELSE IF ~IsIntStr(headers["Retry-After"])
       THEN /\ pc' = "raised"
            /\ outcome' = Raised("ValueError", 429)
            /\ UNCHANGED <<last, nSends, slept, used, over>>
       ELSE /\ slept' = Append(slept, ParseInt(headers["Retry-After"]))
            /\ last' = Resend(frame.client, frame.method, frame.endpoint,
                              frame.params, frame.data)
            /\ nSends' = nSends + 1
            /\ Metering(op.client, op.via)
            /\ UNCHANGED <<pc, outcome>>
    /\ ThrottleFrame

\* the walk is where it was: nothing yielded, nothing asked for
WalkStays ==
    UNCHANGED <<data, received, yielded, records, normal, page, pageCursor, heap,
                gets, item>>

\* after the loop: raise_for_status, then the caller of _request goes on
Finish(status, body) ==
    IF RaisesForStatus(status)
    THEN /\ pc' = "raised"
         /\ outcome' = Raised("HTTPError", status)
         /\ NoSend(status)
         /\ WalkStays
    ELSE IF ~IsWalk
    THEN \* get / post / delete return the response, and so does
         \* create_document; create_highlight, add_tag and delete_tag drop it
         /\ pc' = "done"
         /\ outcome' = IF op.entry \in DropsResponse
                       THEN ReturnedNone ELSE Returned(status, body)
         /\ NoSend(status)
         /\ WalkStays
    ELSE IF body.kind = "invalid"
    THEN \* response.json() raises
         /\ pc' = "raised"
         /\ outcome' = Raised("JSONDecodeError", status)
         /\ NoSend(status)
         /\ WalkStays
    ELSE \* data = response.json(); yield data
         /\ received' = Trace(received, body)
         /\ yielded' = Trace(yielded, body)
         /\ data' = body
         /\ normal' = (normal /\ status = 200
                       /\ body = NormalBody(op.client, op.entry, last.params))
         /\ IF op.entry \notin ListingMethods
            THEN \* the page goes to the consumer
                 /\ pc' = "yielded"
                 /\ NoSend(status)
                 /\ UNCHANGED <<outcome, records, page, pageCursor, heap, gets, item>>
            ELSE IF ShapeError(op.entry, body) # ""
            THEN \* the page goes to the listing method, whose loop fails
                 /\ pc' = "raised"
                 /\ outcome' = Raised(ShapeError(op.entry, body), status)
                 /\ NoSend(status)
                 /\ UNCHANGED <<records, page, pageCursor, heap, gets, item>>
            ELSE \* the page goes to the listing method, which runs on to
                 \* its first record, or to the next page when there is none
                 Iterate(body, 0, status)

\* the server may hand out a link to a further page only while the walk is
\* short of MaxPages; it may always hand back the cursor it was asked with
MayServe(body) ==
    \/ ~IsWalk
    \/ ~(body.kind = "dict" /\ Truthy(body.next))
    \/ Len(yielded) + 1 < MaxPages
    \/ ("pageCursor" \in DOMAIN last.params /\ body.next = last.params["pageCursor"])

\* statuses the server answers with
Statuses == {200, 304, 404, 429, 500}

\* headers and bodies the server sends with a status: a page goes with 200;
\* the model gives the other statuses no JSON body in a walk, and does not
\* vary the body of a direct call
HeadersFor(status) == IF status = 429 THEN ThrottleHeaders ELSE {NoHeaders}
BodiesFor(status) ==
    IF status = 429 THEN {InvalidBody}
    ELSE IF IsWalk
    THEN (IF status = 200 THEN Bodies ELSE {InvalidBody})
    ELSE {Envelope(None, <<>>)}

\* Session.request returns a response to _request
Respond(status, headers, body) ==
    /\ pc = "await"
    /\ status = 429 => Len(throttles) < MaxThrottle
    /\ status # 429 => MayServe(body)
    /\ IF Throttled(status) THEN Throttle(headers) ELSE Finish(status, body)
    /\ UNCHANGED <<parked, op, chunked, paused, metered, traced, asks>>

\* (variant: the handler gives up after one retry, the second error of the
\* walk propagates)
AbsorbsChunkedOnce == IsWalk /\ op.client = "ReadwiseReader" /\ chunked = 0

\* try: ... except ChunkedEncodingError: only around the get call of the
\* cursor-paged generator
AbsorbsChunked == IsWalk /\ op.client = "ReadwiseReader"

\* the transport raises ChunkedEncodingError: the cursor-paged generator
\* sleeps and goes round its loop again, everything else lets it through
ServerChunked ==
    /\ pc = "await"
    /\ chunked < MaxChunked
    /\ chunked' = chunked + 1
    /\ IF AbsorbsChunked
       THEN /\ paused' = Append(paused, ChunkedDelay)
            /\ heap' = [heap EXCEPT ![op.ref] = CursorParams(@, pageCursor)]
            /\ gets' = Count(gets)
            /\ BeginRequest("ReadwiseReader", op.via, "GET", op.endpoint,
                            heap'[op.ref], EmptyDict)
            /\ UNCHANGED outcome
       ELSE /\ pc' = "raised"
            /\ outcome' = Raised("ChunkedEncodingError", 0)
            /\ UNCHANGED <<paused, heap, gets, frame, first, last, nSends,
                           throttles, slept, answer, used, over>>
    /\ UNCHANGED <<parked, item, op, page, pageCursor, data, received, yielded,
                   records, normal, metered, traced, asks>>

----------------------------------------------------------------------------
(* The caller is done with the operation.                                  *)

\* the result has been used, the error handled, or the generator dropped
\* (possibly before it is exhausted): the thread is free again
Release ==
    /\ pc \in {"created", "yielded", "done", "raised"}
    /\ pc' = "idle"
    /\ op' = NoOp
    /\ page' = 0
    /\ pageCursor' = None
    /\ FreshWalk
    /\ NoCall
    /\ UNCHANGED <<parked, heap, metered, traced, used>>

----------------------------------------------------------------------------
(* The observed budget window.                                             *)

\* the rolling window has moved past every request counted so far
WindowPasses ==
    /\ metered \in Classes
    /\ used > 0
    /\ used' = 0
    /\ UNCHANGED <<parked, item, pc, op, heap, page, pageCursor, data, frame, first, last,
                   nSends, throttles, slept, answer, gets, received, yielded, records,
                   chunked, paused, outcome, normal, metered, traced, over, asks>>

----------------------------------------------------------------------------
(* Specifications.                                                         *)

Next ==
    \/ \E c \in Clients, via \in {"get", "get_with_limit_20"}, ps \in CallerFilters :
          CallDirect(c, via, "/books/", ps, EmptyDict)
    \/ \E c \in Clients, b \in PostBodies :
          CallDirect(c, "post", "/books/1/tags/", EmptyDict, b)
    \/ CallDirect("Readwise", "delete", "/books/1/tags/2", EmptyDict, EmptyDict)
    \/ AddTag("1", "tag")
    \/ DeleteTag("1", "2")
    \/ \E ps \in WalkFilters : StartLegacyWalk("get_pagination", ps, DefaultPageSize)
    \/ \E sz \in PageSizes : StartLegacyWalk("get_pagination_limit_20", EmptyDict, sz)
    \/ \E e \in {"get_books", "get_book_highlights", "get_book_tags"} :
          StartLegacyWalk(e, ListingParams(e), DefaultPageSize)
    \/ StartReaderWalk("get_documents", "default", FALSE, EmptyDict)
    \/ \E e \in ReaderWalks : StartReaderWalk(e, "caller", TRUE, ReaderFilter)
    \/ StartReaderWalk("get_documents", "caller", FALSE, EmptyDict)
    \/ Release
    \/ ResumeOffset
    \/ ResumeCursor
    \/ \E st \in Statuses : \E h \in HeadersFor(st), b \in BodiesFor(st) :
          Respond(st, h, b)
    \/ ServerChunked

Spec == Init /\ [][Next]_vars

\* The budget windows under observation: one class is metered, the calls of
\* each class are made back to back, and the window may pass at any time.
InitRate == InitCommon /\ metered \in Classes /\ traced = TRUE

NextRate ==
    \/ \E c \in Clients, via \in {"get", "get_with_limit_20"} :
          CallDirect(c, via, "/books/", EmptyDict, EmptyDict)
    \/ StartLegacyWalk("get_books", ListingParams("get_books"), DefaultPageSize)
    \/ StartReaderWalk("get_documents", "caller", TRUE, ReaderFilter)
    \/ ResumeOffset
    \/ ResumeCursor
    \/ Respond(200, NoHeaders, Envelope(None, <<>>))
    \/ Respond(429, RetryAfterHeader("3"), InvalidBody)
    \/ Release
    \/ WindowPasses

SpecRate == InitRate /\ [][NextRate]_vars

\* The two create methods, called one after the other with any arguments.
NextCreate ==
    \/ \E given \in HighlightCalls : CreateHighlight(given)
    \/ \E given \in DocumentCalls : CreateDocument(given)
    \/ \E st \in Statuses : \E h \in HeadersFor(st), b \in BodiesFor(st) :
          Respond(st, h, b)
    \/ ServerChunked
    \/ Release

SpecCreate == Init /\ [][NextCreate]_vars

\* Books and highlights listed from a server whose one page holds one
\* element with any timestamps.
NextDecode ==
    \/ \E e \in {"get_books", "get_book_highlights"} :
          StartLegacyWalk(e, ListingParams(e), DefaultPageSize)
    \/ ResumeOffset
    \/ \E a, b \in WireStamps \cup {NotAStamp} :
          Respond(200, NoHeaders, Envelope(None, <<RawWith(1, a, b)>>))
    \/ Release

SpecDecode == Init /\ [][NextDecode]_vars

\* One invocation of get_documents run to its end, whatever its length: no
\* history is kept.  The consumer keeps asking for the next page, the
\* transport answers every request; it throttles only requests made before
\* the first page and fails at most MaxChunked times.
InitLive == InitCommon /\ metered = "none" /\ traced = FALSE

ConsumerAsks == ResumeCursor

TransportAnswers ==
    \/ \E st \in Statuses : \E h \in HeadersFor(st), b \in BodiesFor(st) :
          /\ st = 429 => data = NoBody
          /\ Respond(st, h, b)
    \/ ServerChunked

NextLive ==
    \/ StartReaderWalk("get_documents", "default", FALSE, EmptyDict)
    \/ StartReaderWalk("get_documents", "caller", TRUE, ReaderFilter)
    \/ ConsumerAsks
    \/ TransportAnswers

SpecLive ==
    /\ InitLive
    /\ [][NextLive]_vars
    /\ WF_vars(ConsumerAsks)
    /\ WF_vars(TransportAnswers)

----------------------------------------------------------------------------
(* Two generators held by one caller, consumed in any interleaving.        *)

\* the frame of the generator the caller is consuming
ThisWalk ==
    [data |-> data, page |-> page, pc |-> pc, op |-> op, pageCursor |-> pageCursor,
     asks |-> asks, gets |-> gets, received |-> received, yielded |-> yielded,
     records |-> records, chunked |-> chunked, paused |-> paused,
     outcome |-> outcome, normal |-> normal, item |-> item]

\* the caller turns to its other generator (or to making it): the one it
\* was consuming stays suspended where it is, with its locals; the dict
\* objects are the same for both. The caller has control when the listing
\* method has not started, is suspended at a record it yielded, or has ended.
TurnToOther ==
    /\ pc \in {"created", "yielded", "done", "raised"}
    /\ parked' = ThisWalk
    /\ pc' = parked.pc
    /\ op' = parked.op
    /\ page' = parked.page
    /\ pageCursor' = parked.pageCursor
    /\ data' = parked.data
    /\ asks' = parked.asks
    /\ gets' = parked.gets
    /\ received' = parked.received
    /\ yielded' = parked.yielded
    /\ records' = parked.records
    /\ chunked' = parked.chunked
    /\ paused' = parked.paused
    /\ outcome' = parked.outcome
    /\ normal' = parked.normal
    /\ item' = parked.item
    /\ UNCHANGED <<heap, frame, first, last, nSends, throttles, slept, answer,
                   metered, traced, used, over>>

InitTwo == InitCommon /\ metered = "none" /\ traced = FALSE

NextTwo ==
    \/ StartReaderWalk("get_documents", "default", FALSE, EmptyDict)
    \/ ResumeCursor
    \/ \E st \in Statuses : \E h \in HeadersFor(st), b \in BodiesFor(st) :
          Respond(st, h, b)
    \/ TurnToOther

SpecTwo == InitTwo /\ [][NextTwo]_vars

----------------------------------------------------------------------------
(* Vocabulary of the properties (stated apart from the definitions above). *)

LegacyWalk == op.client = "Readwise" /\ op.entry \in LegacyWalks
ReaderWalk == op.client = "ReadwiseReader" /\ op.entry \in ReaderWalks

Falsy(v) == v \in {"None", ""}
LastPage(b) == b.kind = "list" \/ (b.kind \in {"dict", "object"} /\ Falsy(b.next))
InFlight == IF pc = "await" THEN 1 ELSE 0
ErrorStatus(st) == st \in 400..599 /\ st # 429
HasCursor(req) == "pageCursor" \in DOMAIN req.params
DelaySeconds(h) == IF h = [x \in {"Retry-After"} |-> "3"] THEN 3 ELSE -1
AllDelaysValid == \A i \in 1..Len(throttles) : DelaySeconds(throttles[i]) >= 0

----------------------------------------------------------------------------
(* C1 *)

\* C1: a walk of the offset-paged driver yields the body of every response
\* the get method returned, once and in order, one page per request; no
\* request follows a page that is a bare list or whose next is falsy, and
\* the walk is not exhausted before such a page.
C1_OffsetWalk ==
    LegacyWalk =>
        /\ yielded = received
        /\ pc \in {"created", "await", "yielded", "done"}
              => gets = Len(yielded) + InFlight
        /\ \A i \in 1..Len(yielded) :
              LastPage(yielded[i]) => (i = Len(yielded) /\ pc # "await")
        /\ pc = "done" => (Len(yielded) >= 1 /\ LastPage(yielded[Len(yielded)]))

\* a two-page walk that ran to its end
C1_Witness ==
    /\ LegacyWalk
    /\ pc = "done"
    /\ Len(yielded) = 2
    /\ gets = 2
    /\ ~LastPage(yielded[1])

----------------------------------------------------------------------------
(* C2 *)

\* C2: in a walk of the cursor-paged driver the first request carries no
\* pageCursor and every later request carries the nextPageCursor of the
\* page yielded just before it; the walk stops right after the first page
\* that is a bare list, has a falsy nextPageCursor or repeats the cursor of
\* its own request, and not before.
C2_UsedCursor(i) == IF i = 1 THEN "None" ELSE yielded[i - 1].next
C2_StopPage(i) == LastPage(yielded[i]) \/ yielded[i].next = C2_UsedCursor(i)
C2_CursorWalk ==
    ReaderWalk =>
        /\ (pc = "await" /\ Len(yielded) = 0) => ~HasCursor(last)
        /\ (pc = "await" /\ Len(yielded) > 0)
              => (HasCursor(last)
                  /\ last.params["pageCursor"] = yielded[Len(yielded)].next)
        /\ \A i \in 1..Len(yielded) :
              C2_StopPage(i) => (i = Len(yielded) /\ pc # "await")
        /\ pc = "done" => (Len(yielded) >= 1 /\ C2_StopPage(Len(yielded)))

----------------------------------------------------------------------------
(* C3 *)

\* C3: a 429 is neither returned nor raised as a transport error; for each
\* 429 with an integer Retry-After the client sleeps that long and sends
\* once more, so n such 429s make n + 1 sends and n sleeps, and the response
\* returned is the one received last.
C3_Absorbed ==
    /\ outcome.kind = "response" => (outcome.status # 429 /\ outcome.status = answer)
    /\ outcome.error = "HTTPError" => outcome.status # 429
    /\ (nSends > 0 /\ AllDelaysValid) =>
          /\ nSends = Len(throttles) + 1
          /\ slept = [i \in 1..Len(throttles) |-> DelaySeconds(throttles[i])]
          /\ ~(outcome.kind = "error" /\ outcome.status = 429)
          /\ answer = 429 => (pc = "await" \/ outcome.error = "ChunkedEncodingError")

\* a call that was throttled twice and then returned a response
C3_Witness ==
    /\ pc = "done"
    /\ outcome.kind = "response"
    /\ Len(throttles) = 2
    /\ AllDelaysValid
    /\ nSends = 3

----------------------------------------------------------------------------
(* C4 *)

\* C4: every resend after a 429 is the request first sent: same method, URL,
\* query parameters, and the same body under the same keyword.
C4_ResendIdentical == nSends > 1 => last = first

----------------------------------------------------------------------------
(* C5 *)

\* C5 as stated: a terminal status that is neither 2xx nor 429 is never
\* returned as a response.
C5_NonSuccessRaises ==
    outcome.kind = "response" => outcome.status \in 200..299

\* C5 amended: a terminal 4xx / 5xx status other than 429 makes _request
\* raise HTTPError at once: nothing is in flight afterwards, no response is
\* returned, and get / post / delete and the generators pass the error on;
\* any other terminal status of a direct call is returned as the response.
C5_ErrorStatusRaises ==
    /\ ErrorStatus(answer) =>
          /\ pc = "raised"
          /\ outcome = [body |-> NoBody, status |-> answer,
                        kind |-> "error", error |-> "HTTPError"]
          /\ nSends = Len(throttles) + 1
    /\ (op.entry \in DirectCalls /\ answer # 0 /\ answer # 429 /\ ~ErrorStatus(answer))
          => (pc = "done" /\ outcome.kind = "response" /\ outcome.status = answer)

\* a 500 that followed a 429 was raised
C5_Witness ==
    /\ answer = 500
    /\ Len(throttles) = 1
    /\ pc = "raised"
    /\ outcome.error = "HTTPError"

----------------------------------------------------------------------------
(* C6 *)

\* C6: within one window no more requests of a budget class are sent than
\* the class allows (240 default, 20 heavy listing, 20 reader).
C6_Budget == metered \in Classes => used <= LimitOf(metered)

----------------------------------------------------------------------------
(* C7 *)

\* C7: a call whose request meets a used-up budget does not get through as
\* if nothing had happened: it ends by raising ReadwiseRateLimitException.
C7_GateRaises ==
    (over /\ pc \in {"yielded", "done", "raised"})
        => outcome.error = "ReadwiseRateLimitException"

----------------------------------------------------------------------------
(* C8 *)

\* C8: the first request of every walk of a listing method carries page = 1
\* on the legacy client and, when the caller passed no params, no pageCursor
\* on the reader client.
C8_Restartable ==
    (op.entry \in ListingMethods /\ pc = "await" /\ Len(yielded) = 0) =>
        /\ op.client = "Readwise" => last.params["page"] = 1
        /\ (op.client = "ReadwiseReader" /\ op.ref = "default") => ~HasCursor(last)

----------------------------------------------------------------------------
(* C9 *)

\* C9: a ChunkedEncodingError during a cursor-paged walk is not passed on and
\* yields nothing: the driver sleeps 5 seconds and sends the same page
\* request again (same method, URL, cursor and filters), its cursor state
\* untouched, as often as the error occurs.
C9_State ==
    ReaderWalk =>
        /\ outcome.error # "ChunkedEncodingError"
        /\ paused = [i \in 1..chunked |-> 5]
        /\ pc \in {"created", "await", "yielded", "done"}
              => gets = Len(yielded) + chunked + InFlight
C9_Step ==
    (ReaderWalk /\ pc = "await" /\ chunked' = chunked + 1) =>
        /\ pc' = "await"
        /\ pageCursor' = pageCursor
        /\ yielded' = yielded
        /\ records' = records
        /\ heap' = heap
        /\ last' = first
        /\ last'.params = last.params
C9_ChunkedRetry == []C9_State /\ [][C9_Step]_vars

\* the request of one page failed twice, the retry of the retry included:
\* the driver slept twice, sent the request a third time and yielded the
\* page as the first of its walk
C9_Witness ==
    /\ ReaderWalk
    /\ chunked = 2
    /\ paused = <<5, 5>>
    /\ pc = "yielded"
    /\ Len(yielded) = 1
    /\ gets = 3
    /\ last = first

----------------------------------------------------------------------------
(* C10 *)

RECURSIVE ConcatResults(_)
ConcatResults(pages) ==
    IF pages = <<>> THEN <<>>
    ELSE pages[1].results \o ConcatResults(Tail(pages))

\* the pages a well-behaved server holds for a listing
C10_Chain(entry) ==
    IF entry = "get_book_tags"
    THEN <<[next |-> "None", results |-> ChainResults(1), kind |-> "list"]>>
    ELSE [k \in 1..ChainLen |->
            [next |-> IF k < ChainLen THEN CursorNames[k] ELSE "None",
             results |-> ChainResults(k),
             kind |-> "dict"]]

C10_Ids(items) == [i \in 1..Len(items) |-> items[i].id]

\* C10: against a well-behaved server a listing walk that ran to its end
\* has yielded every page of the chain once, in order, and its records are
\* those of the pages' results one after the other.
C10_NoSkip ==
    (op.entry \in ListingMethods /\ pc = "done" /\ normal) =>
        /\ yielded = C10_Chain(op.entry)
        /\ C10_Ids(records) = C10_Ids(ConcatResults(C10_Chain(op.entry)))

----------------------------------------------------------------------------
(* C11 *)

\* the page just yielded names as nextPageCursor the very cursor its own
\* request carried
C11_Repeats ==
    /\ pc = "yielded"
    /\ data.kind = "dict"
    /\ HasCursor(last)
    /\ data.next = last.params["pageCursor"]

\* C11: once the reader driver has yielded a page whose nextPageCursor
\* repeats the cursor of the request that fetched it, the walk sends no
\* further request.
C11_Step == (ReaderWalk /\ C11_Repeats) => pc' # "await"
C11_CycleGuard == [][C11_Step]_vars

----------------------------------------------------------------------------
(* C12 *)

\* C12: every invocation of get_documents ends, by exhaustion or by an
\* error, on a server whose cursors come from a finite set and which
\* throttles and fails only finitely often.
C12_Finite == (op.entry = "get_documents" /\ pc = "created") ~> (pc \in {"done", "raised"})

----------------------------------------------------------------------------
(* C13 *)

\* the token each client of the model was constructed with
C13_Token == IF op.client = "Readwise" THEN "tok2" ELSE "tok3"
C13_Headers == [Accept |-> "application/json", Authorization |-> <<"Token", C13_Token>>]

\* C13: every request sent (the first of a call, each resend after a 429,
\* each retry after a ChunkedEncodingError) carries Authorization: Token
\* <the client's token> and Accept: application/json.
C13_AuthHeaders ==
    nSends > 0 => (last.headers = C13_Headers /\ first.headers = C13_Headers)

\* the second resend of the retry that followed a ChunkedEncodingError
C13_Witness ==
    /\ op.client = "ReadwiseReader"
    /\ pc = "await"
    /\ chunked = 1
    /\ nSends = 3
    /\ last.headers = [Accept |-> "application/json", Authorization |-> <<"Token", "tok3">>]

----------------------------------------------------------------------------
(* C14 *)

C14_Optional == {"author", "highlighted_at", "source_url", "note"}
C14_Iso(d) == IF d = "datetime(2020, 1, 2, 3, 4, 5)" THEN "2020-01-02T03:04:05" ELSE "?"

\* what C14 says of one request of create_highlight, with Sent(k) telling
\* whether the payload is to hold the optional key k
C14_Request(req, Sent(_)) ==
    /\ req.method = "POST"
    /\ req.url = <<"https://readwise.io/api/v2", "/highlights/">>
    /\ DOMAIN req.body = {"highlights"}
    /\ Len(req.body.highlights) = 1
    /\ LET payload == req.body.highlights[1] IN
        /\ DOMAIN payload \subseteq {"text", "title", "category"} \cup C14_Optional
        /\ {"text", "title", "category"} \subseteq DOMAIN payload
        /\ payload.text = op.args.text
        /\ payload.title = op.args.title
        /\ payload.category = IF "category" \in DOMAIN op.args
                              THEN op.args.category ELSE "articles"
        /\ \A k \in C14_Optional : k \in DOMAIN payload <=> Sent(k)
        /\ \A k \in DOMAIN payload :
              /\ payload[k] # "None"
              /\ k \in C14_Optional =>
                    payload[k] = IF k = "highlighted_at"
                                 THEN C14_Iso(op.args[k]) ELSE op.args[k]

C14_Provided(k) == k \in DOMAIN op.args
C14_NonEmpty(k) == k \in DOMAIN op.args /\ op.args[k] \notin {"None", ""}

\* C14 as stated: one call of create_highlight makes one post to
\* /highlights/ (one send, and one resend per 429 slept through) whose body is
\* {highlights: [payload]}; the payload holds text, title and category
\* (default "articles") and each optional key exactly when the caller
\* provided it, never with a null value.
C14_IffProvided ==
    (op.entry = "create_highlight" /\ nSends > 0) =>
        /\ AllDelaysValid => nSends = Len(throttles) + 1
        /\ C14_Request(first, C14_Provided)
        /\ C14_Request(last, C14_Provided)

\* C14 amended: ... each optional key exactly when the caller provided a
\* value for it that is not empty.
C14_IffNonEmpty ==
    (op.entry = "create_highlight" /\ nSends > 0) =>
        /\ AllDelaysValid => nSends = Len(throttles) + 1
        /\ C14_Request(first, C14_NonEmpty)
        /\ C14_Request(last, C14_NonEmpty)

\* a call with an empty author, a timestamp and a note went through, after
\* one 429
C14_Witness ==
    /\ op.entry = "create_highlight"
    /\ pc = "done"
    /\ nSends = 2
    /\ op.args = [author |-> "", highlighted_at |-> "datetime(2020, 1, 2, 3, 4, 5)",
                  note |-> "fine", text |-> "hello", title |-> "Book"]
    /\ last.body = [highlights |-> <<[category |-> "articles",
                                       highlighted_at |-> "2020-01-02T03:04:05",
                                       note |-> "fine",
                                       text |-> "hello",
                                       title |-> "Book"]>>]

----------------------------------------------------------------------------
(* C15 *)

C15_Optional == {"html", "should_clean_html", "title", "author", "summary",
                 "published_at", "image_url", "saved_using"}

\* what C15 says of one request of create_document
C15_Request(req) ==
    /\ req.method = "POST"
    /\ req.url = <<"https://readwise.io/api/v3", "/save/">>
    /\ DOMAIN req.body \subseteq {"url", "tags", "location"} \cup C15_Optional
    /\ {"url", "tags", "location"} \subseteq DOMAIN req.body
    /\ req.body.url = op.args.url
    /\ req.body.location = IF "location" \in DOMAIN op.args
                           THEN op.args.location ELSE "new"
    /\ req.body.tags = IF "tags" \in DOMAIN op.args THEN op.args.tags ELSE <<>>
    /\ \A k \in C15_Optional :
          k \in DOMAIN req.body =>
              /\ k \in DOMAIN op.args
              /\ req.body[k] = IF k = "published_at"
                               THEN C14_Iso(op.args[k]) ELSE op.args[k]

\* C15: create_document posts to /save/ a body that holds url, tags and
\* location (location "new" and tags the empty list when not passed, on
\* every call) and an optional field only when the caller provided it, and
\* it returns the response the server gave last.
C15_Document ==
    (op.entry = "create_document" /\ nSends > 0) =>
        /\ C15_Request(first)
        /\ C15_Request(last)
        /\ pc = "done" =>
              (outcome.kind = "response" /\ outcome.status = answer
               /\ outcome.body.kind = "dict")

\* a call with the url alone was answered 200 after a 429
C15_Witness ==
    /\ op.entry = "create_document"
    /\ op.args = [url |-> "https://d"]
    /\ pc = "done"
    /\ nSends = 2
    /\ last.body = [url |-> "https://d", tags |-> <<>>, location |-> "new"]
    /\ outcome.status = 200

----------------------------------------------------------------------------
(* C16 *)

\* the first page of the walk is {results: [], next: null}
C16_EmptyFirst ==
    /\ op.entry \in {"get_books", "get_book_highlights"}
    /\ Len(yielded) >= 1
    /\ yielded[1] = [next |-> "None", results |-> <<>>, kind |-> "dict"]

\* C16: get_books and get_book_highlights on a first page
\* {results: [], next: null} yield no record and raise nothing, and the walk
\* makes that one request only.
C16_ZeroResults ==
    C16_EmptyFirst =>
        /\ records = <<>>
        /\ outcome.kind = "none"
        /\ pc \in {"yielded", "done"}
        /\ gets = 1
        /\ Len(yielded) = 1

\* such a walk ran to its end
C16_Witness ==
    /\ C16_EmptyFirst
    /\ op.entry = "get_book_highlights"
    /\ pc = "done"
    /\ records = <<>>
    /\ gets = 1

----------------------------------------------------------------------------
(* C17 *)

\* the nullable timestamps of a book and of a highlight
C17_Fields == IF op.entry = "get_books" THEN {"last_highlight_at", "updated"}
                                         ELSE {"updated"}

\* the instant an ISO-8601 string names
C17_Instant(s) ==
    CASE s = "2020-01-01T00:00:00Z" -> "datetime(2020, 1, 1, 0, 0, tzinfo=utc)"
      [] s = "1970-01-01T00:00:00Z" -> "datetime(1970, 1, 1, 0, 0, tzinfo=utc)"
      [] s = "2020-01-02T03:04:05" -> "datetime(2020, 1, 2, 3, 4, 5)"
      [] OTHER -> "?"
C17_Absent(v) == v \in {"None", ""}
C17_Valid(v) == C17_Instant(v) # "?"

\* C17: a book or highlight whose nullable timestamps are each null, empty
\* or a valid ISO-8601 string is decoded without error; a null or empty
\* timestamp becomes None, a valid one the instant it names, and None stands
\* for nothing else.
C17_NullableStamps ==
    (op.entry \in {"get_books", "get_book_highlights"} /\ Len(yielded) = 1
     /\ Len(yielded[1].results) = 1) =>
        LET raw == yielded[1].results[1] IN
        (\A k \in C17_Fields : C17_Absent(raw[k]) \/ C17_Valid(raw[k])) =>
            /\ pc \in {"yielded", "done"}
            /\ outcome.kind = "none"
            /\ Len(records) = 1
            /\ DOMAIN records[1] = {"id"} \cup C17_Fields
            /\ records[1].id = raw.id
            /\ \A k \in C17_Fields :
                  /\ C17_Absent(raw[k]) => records[1][k] = "None"
                  /\ C17_Valid(raw[k]) => records[1][k] = C17_Instant(raw[k])

\* a book never highlighted, updated at the epoch
C17_Witness ==
    /\ op.entry = "get_books"
    /\ pc = "done"
    /\ Len(yielded) = 1
    /\ yielded[1].results[1].last_highlight_at = "None"
    /\ yielded[1].results[1].updated = "1970-01-01T00:00:00Z"
    /\ records = <<[id |-> 1, last_highlight_at |-> "None",
                    updated |-> "datetime(1970, 1, 1, 0, 0, tzinfo=utc)"]>>

----------------------------------------------------------------------------
(* C18 *)

\* C18: the k-th request of a walk of the offset-paged driver carries
\* page = k, and every request of the walk carries the page_size the walk
\* was started with (1000 unless the caller gave another).
C18_PageNumbers ==
    (LegacyWalk /\ pc = "await") =>
        /\ gets = Len(yielded) + 1
        /\ last.params["page"] = gets
        /\ last.params["page_size"] = op.page_size
        /\ first.params = last.params

----------------------------------------------------------------------------
(* C19 *)

\* where the error of a failed walk arose: in the listing method, handling
\* the page the driver had just handed it; in the driver, resuming after a
\* page; or in the request of the step
C19_InListing ==
    /\ op.entry \in ListingMethods
    /\ outcome.status = 200
    /\ outcome.error \in {"TypeError", "KeyError", "ValueError"}
C19_OnResume == outcome.error = "AttributeError"

\* chunked failures that were retried, not passed on
C19_Retried == IF op.client = "ReadwiseReader" THEN chunked ELSE 0

\* the pages of the steps before the failing one, and the ids of the
\* elements of the failing page that come before the first one without keys
C19_Before ==
    IF C19_InListing THEN SubSeq(yielded, 1, Len(yielded) - 1) ELSE yielded
RECURSIVE C19_GoodIds(_)
C19_GoodIds(items) ==
    IF items = <<>> \/ "id" \notin DOMAIN items[1] THEN <<>>
    ELSE <<items[1].id>> \o C19_GoodIds(Tail(items))
C19_Partial ==
    IF C19_InListing /\ outcome.error # "TypeError"
    THEN C19_GoodIds(yielded[Len(yielded)].results) ELSE <<>>

\* what C19 says of a failed walk but for its records: the error is what the
\* consumer gets, every page the get method returned was handed on, and the
\* failing step made the walk's last request
C19_Surfaces ==
    /\ outcome.kind = "error"
    /\ yielded = received
    /\ gets = Len(C19_Before) + C19_Retried
              + (IF C19_OnResume THEN 0 ELSE 1)
    /\ op.entry \notin ListingMethods => records = <<>>

\* C19 as stated: when step k of a walk fails, the records yielded are
\* exactly those of the pages of steps 1..k-1.
C19_ExactlyEarlierSteps ==
    (IsWalk /\ pc = "raised") =>
        /\ C19_Surfaces
        /\ op.entry \in ListingMethods =>
              C10_Ids(records) = C10_Ids(ConcatResults(C19_Before))

\* C19 amended: ... the records yielded are those of the pages of steps
\* 1..k-1, followed by the records of the failing page that come before its
\* first element that cannot be decoded.
C19_EarlierStepsAndPrefix ==
    (IsWalk /\ pc = "raised") =>
        /\ C19_Surfaces
        /\ op.entry \in ListingMethods =>
              C10_Ids(records) = C10_Ids(ConcatResults(C19_Before)) \o C19_Partial

\* get_books failed on the second element of its second page
C19_Witness ==
    /\ op.entry = "get_books"
    /\ pc = "raised"
    /\ outcome.error = "KeyError"
    /\ outcome.status = 200
    /\ gets = 2
    /\ Len(yielded) = 2
    /\ Len(records) = 2

----------------------------------------------------------------------------
(* C20 *)

\* what the consumer has been handed so far: pages by a walk over pages,
\* records by a listing method
C20_Handed == IF op.entry \in ListingMethods THEN Len(records) ELSE Len(yielded)

\* the pages fetched that hold something for the consumer: every page of a
\* walk over pages, the pages with at least one element of a listing method
C20_PagesToHand ==
    Cardinality({i \in 1..Len(received) :
                    \/ op.entry \notin ListingMethods
                    \/ Items(op.entry, received[i]) # <<>>})

\* C20 as stated: creating a walk sends nothing; a request goes out only
\* once the consumer has asked, and the request for the page after page k
\* only once page k has been handed over and the consumer has asked again:
\* the pages fetched never outnumber the consumer's asks.
C20_Lazy ==
    IsWalk =>
        /\ pc = "created" => (asks = 0 /\ gets = 0 /\ nSends = 0)
        /\ nSends > 0 => asks > 0
        /\ Len(received) <= asks
        /\ gets <= asks + C19_Retried

\* C20 amended: creating a walk sends nothing; a request goes out only
\* within an ask of the consumer, and only when everything the walk has
\* handed out was asked for and everything of the pages fetched before has
\* been handed out; the pages fetched that hold something for the consumer
\* never outnumber its asks (a listing method passes over a page without
\* records within the same ask); a consumer that stops at a value it was
\* handed leaves no request in flight.
C20_LazyValues ==
    IsWalk =>
        /\ pc = "created" => (asks = 0 /\ gets = 0 /\ nSends = 0)
        /\ nSends > 0 => asks > 0
        /\ C20_PagesToHand <= asks
        /\ pc = "await" =>
              /\ asks = C20_Handed + 1
              /\ op.entry \in ListingMethods =>
                    C10_Ids(records) = C10_Ids(ConcatResults(yielded))
        /\ pc = "yielded" =>
              /\ asks = C20_Handed
              /\ gets = Len(yielded) + C19_Retried

\* a listing method fetched two pages within the consumer's first ask: the
\* first page held no record and linked to the second
C20_Witness ==
    /\ op.entry = "get_documents"
    /\ pc = "yielded"
    /\ Len(yielded) = 2
    /\ yielded[1] = [next |-> "c1", results |-> <<>>, kind |-> "dict"]
    /\ asks = 1
    /\ gets = 2
    /\ Len(records) = 1

----------------------------------------------------------------------------
(* C21 *)

\* C21: a walk leaves the params mapping it was given, and the default
\* mapping used when none is given, as they were: the default stays empty,
\* the caller's mapping keeps the one filter the caller put in it, and no
\* pageCursor, page or page_size key is ever added to either; the legacy
\* walk's own params stay as passed.
C21_ParamsKept ==
    /\ heap["default"] = <<>>
    /\ heap["caller"] = [category |-> "article"]
    /\ \A r \in {"default", "caller"} :
          DOMAIN heap[r] \cap {"pageCursor", "page", "page_size"} = {}
    /\ LegacyWalk => op.params \in {<<>>, [category |-> "article"], [page |-> 2],
                                      [category |-> "books"], [book_id |-> "1"]}

----------------------------------------------------------------------------
(* C23 *)

\* the error int(response.headers['Retry-After']) raises for these headers
C23_HeaderError(h) ==
    IF "Retry-After" \notin DOMAIN h THEN "KeyError" ELSE "ValueError"

\* C23: a 429 whose Retry-After header is missing or is not an integer is
\* not absorbed, on either client: it is the last answer the call received,
\* the call has raised at that point (KeyError for a missing header,
\* ValueError for a non-integer one), no sleep was made for it and no
\* request was sent after it.
C23_NotAbsorbed ==
    \A i \in 1..Len(throttles) :
       DelaySeconds(throttles[i]) < 0 =>
          /\ i = Len(throttles)
          /\ answer = 429
          /\ pc = "raised"
          /\ outcome = Raised(C23_HeaderError(throttles[i]), 429)
          /\ nSends = i
          /\ last = (IF i = 1 THEN first
                     ELSE Resend(frame.client, frame.method, frame.endpoint,
                                 frame.params, frame.data))
          /\ slept = [j \in 1..(i - 1) |-> DelaySeconds(throttles[j])]
          /\ op.client \in Clients

\* a listing of the reader client slept through one 429 and then raised on
\* a second 429 whose Retry-After is not a number
C23_Witness ==
    /\ op.client = "ReadwiseReader"
    /\ IsWalk
    /\ Len(throttles) = 2
    /\ throttles[2] = RetryAfterHeader("soon")
    /\ slept = <<3>>
    /\ nSends = 2
    /\ outcome = Raised("ValueError", 429)

----------------------------------------------------------------------------
(* C22 *)

\* both generators exist and neither is finished
C22_BothAlive ==
    /\ ReaderWalk
    /\ parked.op.entry = "get_documents"
    /\ parked.pc \in {"created", "yielded"}

\* C22: while two get_documents walks started without params are alive,
\* the request a walk has in flight carries that walk's own cursor and
\* nothing else: no pageCursor before the walk has received one, and
\* otherwise the nextPageCursor of the page it received last.
C22_OwnCursor ==
    (C22_BothAlive /\ pc = "await") =>
        last.params = (IF data = NoBody THEN <<>>
                       ELSE [pageCursor |-> data.next])

====
